---- MODULE Spec2Model ----
(***************************************************************************)
(* Model of whisper_detector.py: one invocation of main(), the Whisper     *)
(* transcription it consumes, and the partitioning of the transcript into  *)
(* output segments (sentence grouping, 7-second ceiling, spaCy split).     *)
(*                                                                         *)
(* Times are integers in units of 0.1 ms (one second = 10000), so that     *)
(* round(x, 3) is a real operation.  Whisper reports word and segment      *)
(* times on a 10 ms / 20 ms grid; the adapter actions below draw times     *)
(* from whole milliseconds.                                                *)
(* Strings that the code inspects (word texts, parser tokens) are          *)
(* sequences of one-character strings.  Python indices are kept 0-based.   *)
(***************************************************************************)
EXTENDS Integers, Sequences, FiniteSets, TLC

VARIABLES
    pc,                 \* position of the invocation in main / detect_speech_segments
    argv,               \* sys.argv
    initial_prompt,     \* main: initial_prompt
    stdout,             \* JSON objects printed on standard output, in order
    exit_code,          \* process exit status, -1 until the process ends
    raw,                \* segments the speech model has produced so far
    clock,              \* end time of the audio transcribed so far
    result,             \* value returned by model.transcribe
    all_words,          \* detect_speech_segments: all_words
    sentence_segments,  \* detect_speech_segments: sentence_segments
    segments,           \* detect_speech_segments: segments
    seg_words,          \* history: the words each emitted segment was built from
    sent_i,             \* 0-based position of the loop of line 196
    words,              \* split_long_sentence_with_spacy: words
    text,               \* split_long_sentence_with_spacy: text
    tok_i,              \* number of tokens of doc the loop of line 58 has taken
    token,              \* split_long_sentence_with_spacy: token (line 58)
    word_idx,           \* split_long_sentence_with_spacy: word_idx
    split_indices,      \* split_long_sentence_with_spacy: split_indices
    chunks              \* value last returned by split_long_sentence_with_spacy

vars == <<pc, argv, initial_prompt, stdout, exit_code, raw, clock, result,
          all_words, sentence_segments, segments, seg_words, sent_i, words,
          text, tok_i, token, word_idx, split_indices, chunks>>

(***************************************************************************)
(* Bounds of the model.                                                    *)
(***************************************************************************)
MaxWords == 2       \* words in one transcription
MaxSegs == 2        \* raw segments in one transcription
MaxTokens == 2      \* tokens in one parse

(***************************************************************************)
(* Program constants, in units of 0.1 ms.                                  *)
(***************************************************************************)
PADDING_END == 2000
MAX_SEGMENT_DURATION == 70000

(***************************************************************************)
(* Strings.                                                                *)
(***************************************************************************)
Whitespace == {" "}

LowerChar(c) ==
    CASE c = "A" -> "a"
      [] c = "H" -> "h"
      [] c = "O" -> "o"
      [] OTHER -> c

Lower(s) == [n \in 1..Len(s) |-> LowerChar(s[n])]

RECURSIVE LStrip(_)
LStrip(s) == IF s # <<>> /\ Head(s) \in Whitespace THEN LStrip(Tail(s)) ELSE s

RECURSIVE RStrip(_)
RStrip(s) ==
    IF s # <<>> /\ s[Len(s)] \in Whitespace
    THEN RStrip(SubSeq(s, 1, Len(s) - 1))
    ELSE s

Strip(s) == RStrip(LStrip(s))

EndsWith(s, c) == s # <<>> /\ s[Len(s)] = c

\* ' '.join(strs)
RECURSIVE Join(_)
Join(strs) ==
    IF strs = <<>> THEN <<>>
    ELSE IF Len(strs) = 1 THEN strs[1]
    ELSE strs[1] \o <<" ">> \o Join(Tail(strs))

WordTexts(ws) == [n \in 1..Len(ws) |-> ws[n].word]

\* words[a:b] with Python's 0-based, end-exclusive indices
Slice(s, a, b) == SubSeq(s, a + 1, b)

\* round(x, 3): to the nearest millisecond, ties to even
Round3(x) ==
    LET r == x % 10
        down == x - r
    IN  IF r < 5 THEN down
        ELSE IF r > 5 THEN down + 10
        ELSE IF (down \div 10) % 2 = 0 THEN down ELSE down + 10

(***************************************************************************)
(* What the speech model and the parser may return.                        *)
(***************************************************************************)
WordText == { <<" ", "H", "i">>,
              <<" ", "A", "n", "d">>,
              <<" ", "o", "k", "!", " ">>,
              <<"a", ".", "m">> }

\* 3.5 s and 8 s: two short words stay within the 7 s ceiling, a long one exceeds it
WordLen == {35000, 80000}
SegGap == {10000}
SegLen == {20000}
SegText == { <<" ", "H", "i", " ">> }

\* tokens of a parse: a conjunction, a comma, "and" in another role, a word tagged cc
Token == { [dep_ |-> "cc",     text |-> <<"A", "n", "d">>],
           [dep_ |-> "punct",  text |-> <<",">>],
           [dep_ |-> "advmod", text |-> <<"a", "n", "d">>],
           [dep_ |-> "cc",     text |-> <<"H", "i">>] }

NoToken == [dep_ |-> "", text |-> <<>>]

\* sys.argv: no audio path, the audio path alone, all four arguments
Argv == { <<"whisper_detector.py">>,
          <<"whisper_detector.py", "a.wav">>,
          <<"whisper_detector.py", "a.wav", "small", "Dictation.", "cpu">> }

(***************************************************************************)
(* split_long_sentence_with_spacy                                          *)
(***************************************************************************)
SplitDeps == {"cc", "punct"}
SplitTexts == { <<",">>, <<"a", "n", "d">>, <<"b", "u", "t">>, <<"o", "r">>, <<"s", "o">> }

\* line 60: the token is a candidate split point
IsCandidate(tok) == tok.dep_ \in SplitDeps /\ Lower(tok.text) \in SplitTexts

\* line 63
WordMatches(w, tok) == Lower(Strip(w.word)) = Lower(tok.text)

\* FindMatch scanning from the start of the list instead of from the cursor
FindMatch_FromStart(ws, from, tok) ==
    LET hits == { j \in 0..(Len(ws) - 1) : WordMatches(ws[j + 1], tok) }
    IN  IF hits = {} THEN -1
        ELSE CHOOSE j \in hits : \A h \in hits : j <= h

\* lines 62-66: the first j in range(word_idx, len(words)) whose word matches, or -1
FindMatch(ws, from, tok) ==
    LET hits == { j \in from..(Len(ws) - 1) : WordMatches(ws[j + 1], tok) }
    IN  IF hits = {} THEN -1
        ELSE CHOOSE j \in hits : \A h \in hits : j <= h

\* lines 43-49, 91-97: the sentence as one chunk
WholeChunk(ws, txt) ==
    [start |-> ws[1].start, end |-> ws[Len(ws)].end,
     duration |-> ws[Len(ws)].end - ws[1].start,
     text |-> txt, words |-> ws]

\* lines 81-88
Chunk(chunk_words) ==
    [start |-> chunk_words[1].start, end |-> chunk_words[Len(chunk_words)].end,
     duration |-> chunk_words[Len(chunk_words)].end - chunk_words[1].start,
     text |-> Strip(Join(WordTexts(chunk_words))), words |-> chunk_words]

\* lines 77-89: the loop over split_indices + [len(words)]
RECURSIVE ChunkLoop(_, _, _, _)
ChunkLoop(ws, bounds, start_idx, acc) ==
    IF bounds = <<>> THEN acc
    ELSE LET split_idx == Head(bounds)
         IN  IF split_idx > start_idx
             THEN LET chunk_words == Slice(ws, start_idx, split_idx)
                  IN  ChunkLoop(ws, Tail(bounds), split_idx,
                                IF chunk_words # <<>> THEN Append(acc, Chunk(chunk_words))
                                ELSE acc)
             ELSE ChunkLoop(ws, Tail(bounds), start_idx, acc)

\* SplitPoints with the midpoint one word too far
SplitPoints_OffByOne(ws, found) ==
    IF found = <<>> THEN << Len(ws) \div 2 + 1 >> ELSE found

\* lines 69-71: split by word count when no split point was found
SplitPoints(ws, found) == IF found = <<>> THEN << Len(ws) \div 2 >> ELSE found

\* MakeChunks without the implicit final boundary len(words)
MakeChunks_NoTail(ws, txt, found) ==
    LET pts == IF found = <<>> THEN << Len(ws) \div 2 >> ELSE found
        cs == ChunkLoop(ws, pts, 0, <<>>)
    IN  IF cs # <<>> THEN cs ELSE << WholeChunk(ws, txt) >>

\* lines 68-97: the chunks returned once the split points are known
MakeChunks(ws, txt, found) ==
    LET cs == ChunkLoop(ws, Append(SplitPoints(ws, found), Len(ws)), 0, <<>>)
    IN  IF cs # <<>> THEN cs ELSE << WholeChunk(ws, txt) >>

(***************************************************************************)
(* detect_speech_segments                                                  *)
(***************************************************************************)
sentence_endings == {".", "!", "?"}

\* IsSentenceEnd without the rstrip
IsSentenceEnd_NoStrip(word) == \E punct \in sentence_endings : EndsWith(word, punct)

\* line 175
IsSentenceEnd(word) == \E punct \in sentence_endings : EndsWith(RStrip(word), punct)

\* lines 177-181, 186-190
Sentence(current_words) ==
    [words |-> current_words, text |-> Strip(Join(WordTexts(current_words)))]

\* lines 166-190
RECURSIVE GroupLoop(_, _, _)
GroupLoop(ws, current_words, acc) ==
    IF ws = <<>>
    THEN IF current_words # <<>> THEN Append(acc, Sentence(current_words)) ELSE acc
    ELSE LET cur == Append(current_words, Head(ws))
         IN  IF IsSentenceEnd(Head(ws).word)
             THEN GroupLoop(Tail(ws), <<>>, Append(acc, Sentence(cur)))
             ELSE GroupLoop(Tail(ws), cur, acc)

GroupSentences(ws) == GroupLoop(ws, <<>>, <<>>)

\* lines 145-148
RECURSIVE Flatten(_)
Flatten(segs) ==
    IF segs = <<>> THEN <<>>
    ELSE (IF "words" \in DOMAIN Head(segs) THEN Head(segs).words ELSE <<>>)
         \o Flatten(Tail(segs))

\* FallbackSegment padding the last segment as well
FallbackSegment_PadLast(segment, is_last) ==
    LET start == segment.start
        end == segment.end + PADDING_END
    IN  [start |-> Round3(start), end |-> Round3(end),
         duration |-> Round3(end - start), text |-> Strip(segment.text)]

\* lines 154-162
FallbackSegment(segment, is_last) ==
    LET start == segment.start
        end == IF is_last THEN segment.end ELSE segment.end + PADDING_END
    IN  [start |-> Round3(start), end |-> Round3(end),
         duration |-> Round3(end - start), text |-> Strip(segment.text)]

\* lines 152-163
FallbackSegments(segs) ==
    [n \in 1..Len(segs) |-> FallbackSegment(segs[n], n - 1 = Len(segs) - 1)]

\* ChunkSegment reporting the chunk's own duration, without the pad
ChunkSegment_PlainDuration(chunk) ==
    [start |-> Round3(chunk.start),
     end |-> Round3(chunk.end + PADDING_END),
     duration |-> Round3(chunk.duration),
     text |-> chunk.text]

\* lines 212-217
ChunkSegment(chunk) ==
    [start |-> Round3(chunk.start),
     end |-> Round3(chunk.end + PADDING_END),
     duration |-> Round3(chunk.end - chunk.start + PADDING_END),
     text |-> chunk.text]

\* DirectSegment with the pad left out of the end
DirectSegment_Unpadded(ws, txt) ==
    [start |-> Round3(ws[1].start),
     end |-> Round3(ws[Len(ws)].end),
     duration |-> Round3(ws[Len(ws)].end - ws[1].start + PADDING_END),
     text |-> txt]

\* lines 220-225
DirectSegment(ws, txt) ==
    [start |-> Round3(ws[1].start),
     end |-> Round3(ws[Len(ws)].end + PADDING_END),
     duration |-> Round3(ws[Len(ws)].end - ws[1].start + PADDING_END),
     text |-> txt]

\* line 204
Duration(ws) == ws[Len(ws)].end - ws[1].start

(***************************************************************************)
(* The invocation.                                                         *)
(***************************************************************************)
NoResult == [none |-> TRUE]

Init ==
    /\ pc = "main"
    /\ argv \in Argv
    /\ initial_prompt = ""
    /\ stdout = <<>>
    /\ exit_code = -1
    /\ raw = <<>>
    /\ clock = 0
    /\ result = NoResult
    /\ all_words = <<>>
    /\ sentence_segments = <<>>
    /\ segments = <<>>
    /\ seg_words = <<>>
    /\ sent_i = 0
    /\ words = <<>>
    /\ text = <<>>
    /\ tok_i = 0
    /\ token = NoToken
    /\ word_idx = 0
    /\ split_indices = <<>>
    /\ chunks = <<>>

detectVars == <<all_words, sentence_segments, segments, seg_words, sent_i>>
splitVars == <<words, text, tok_i, token, word_idx, split_indices, chunks>>
adapterVars == <<raw, clock, result>>

\* Except without the sys.exit(1): main returns and the process ends with status 0
Except_NoExit(e) ==
    /\ stdout' = Append(stdout, [success |-> FALSE, error |-> e])
    /\ exit_code' = 0
    /\ pc' = "exit"

\* lines 248-254: the handler of main's try block
Except(e) ==
    /\ stdout' = Append(stdout, [success |-> FALSE, error |-> e])
    /\ exit_code' = 1
    /\ pc' = "exit"

\* lines 230-232
MainUsage ==
    /\ pc = "main"
    /\ Len(argv) < 2
    /\ stdout' = Append(stdout, [error |-> "No audio file specified"])
    /\ exit_code' = 1
    /\ pc' = "exit"
    /\ UNCHANGED <<argv, initial_prompt, adapterVars, detectVars, splitVars>>

\* lines 234-240, 113-119: the arguments are read and the transcription starts
MainArgs ==
    /\ pc = "main"
    /\ ~(Len(argv) < 2)
    /\ initial_prompt' = IF Len(argv) > 3 THEN argv[4] ELSE ""
    /\ pc' = "transcribe"
    /\ UNCHANGED <<argv, stdout, exit_code, adapterVars, detectVars, splitVars>>

NumWords(segs) == Len(Flatten(segs))

\* model.transcribe: the speech model opens one more segment
TranscribeSegment ==
    /\ pc = "transcribe"
    /\ Len(raw) < MaxSegs
    /\ \E gap \in SegGap, len \in SegLen, txt \in SegText, timed \in BOOLEAN :
         LET start == clock + gap
             seg == [start |-> start, end |-> start + len, text |-> txt]
         IN  /\ raw' = Append(raw, IF timed THEN seg @@ [words |-> <<>>] ELSE seg)
             /\ clock' = start + len
    /\ UNCHANGED <<pc, argv, initial_prompt, stdout, exit_code, result,
                   detectVars, splitVars>>

\* model.transcribe: one more timed word in the segment being decoded
TranscribeWord ==
    /\ pc = "transcribe"
    /\ raw # <<>>
    /\ "words" \in DOMAIN raw[Len(raw)]
    /\ NumWords(raw) < MaxWords
    /\ \E w \in WordText, len \in WordLen :
         LET seg == raw[Len(raw)]
             start == IF seg.words = <<>> THEN seg.start
                      ELSE seg.words[Len(seg.words)].end
             wd == [word |-> w, start |-> start, end |-> start + len]
             end == IF start + len > seg.end THEN start + len ELSE seg.end
         IN  /\ raw' = [raw EXCEPT ![Len(raw)] =
                          [seg EXCEPT !.words = Append(seg.words, wd),
                                      !.end = end,
                                      !.text = IF seg.words = <<>> THEN w ELSE seg.text \o w]]
             /\ clock' = end
    /\ UNCHANGED <<pc, argv, initial_prompt, stdout, exit_code, result,
                   detectVars, splitVars>>

\* lines 115-139 raise (missing file, unsupported device, decoding failure):
\* nothing is returned, so what had been decoded until then is of no effect
TranscribeRaise ==
    /\ pc = "transcribe"
    /\ raw = <<>>
    /\ Except("transcription failed")
    /\ UNCHANGED <<argv, initial_prompt, adapterVars, detectVars, splitVars>>

\* line 119: model.transcribe returns
TranscribeReturn ==
    /\ pc = "transcribe"
    /\ result' = [text |-> <<>>, segments |-> raw]
    /\ pc' = "flatten"
    /\ UNCHANGED <<argv, initial_prompt, stdout, exit_code, raw, clock,
                   detectVars, splitVars>>

\* line 119: model.transcribe returns a result of an unexpected shape
TranscribeReturnMalformed ==
    /\ pc = "transcribe"
    /\ raw = <<>>
    /\ result' = [text |-> <<>>]
    /\ pc' = "flatten"
    /\ UNCHANGED <<argv, initial_prompt, stdout, exit_code, raw, clock,
                   detectVars, splitVars>>

\* line 146 raises KeyError: the partitioner fails on the malformed result
FlattenRaise ==
    /\ pc = "flatten"
    /\ "segments" \notin DOMAIN result
    /\ Except("'segments'")
    /\ UNCHANGED <<argv, initial_prompt, adapterVars, detectVars, splitVars>>

\* lines 145-163: no word timestamps, one segment per raw segment
Fallback ==
    /\ pc = "flatten"
    /\ "segments" \in DOMAIN result
    /\ Flatten(result.segments) = <<>>
    /\ all_words' = <<>>
    /\ segments' = FallbackSegments(result.segments)
    /\ pc' = "return"
    /\ UNCHANGED <<argv, initial_prompt, stdout, exit_code, adapterVars,
                   sentence_segments, seg_words, sent_i, splitVars>>

\* lines 145-194: the words are flattened and grouped into sentences
Group ==
    /\ pc = "flatten"
    /\ "segments" \in DOMAIN result
    /\ Flatten(result.segments) # <<>>
    /\ all_words' = Flatten(result.segments)
    /\ sentence_segments' = GroupSentences(all_words')
    /\ segments' = <<>>
    /\ seg_words' = <<>>
    /\ sent_i' = 0
    /\ pc' = "loop"
    /\ UNCHANGED <<argv, initial_prompt, stdout, exit_code, adapterVars, splitVars>>

\* lines 196-204, 218-225: a sentence within the ceiling is emitted as it is.
\* (The grouping never yields a sentence without words, so the `continue` of
\* line 201 is never taken.)
LoopDirect ==
    /\ pc = "loop"
    /\ sent_i < Len(sentence_segments)
    /\ LET sent_seg == sentence_segments[sent_i + 1]
       IN  /\ sent_seg.words # <<>>
           /\ ~(Duration(sent_seg.words) > MAX_SEGMENT_DURATION)
           /\ segments' = Append(segments, DirectSegment(sent_seg.words, sent_seg.text))
           /\ seg_words' = Append(seg_words, sent_seg.words)
    /\ sent_i' = sent_i + 1
    /\ UNCHANGED <<pc, argv, initial_prompt, stdout, exit_code, adapterVars,
                   all_words, sentence_segments, splitVars>>

\* lines 206-209, 36-56: a long sentence is handed to the splitter, which parses it.
\* The parse is opaque: its tokens are drawn one by one as the loop of line 58
\* takes them, at most MaxTokens of them.
LoopSplit ==
    /\ pc = "loop"
    /\ sent_i < Len(sentence_segments)
    /\ LET sent_seg == sentence_segments[sent_i + 1]
       IN  /\ sent_seg.words # <<>>
           /\ Duration(sent_seg.words) > MAX_SEGMENT_DURATION
           /\ words' = sent_seg.words
           /\ text' = sent_seg.text
    /\ split_indices' = <<>>
    /\ word_idx' = 0
    /\ tok_i' = 0
    /\ token' = NoToken
    /\ pc' = "search"
    /\ UNCHANGED <<argv, initial_prompt, stdout, exit_code, adapterVars,
                   detectVars, chunks>>

\* lines 60-66: the word index recorded for a token, or -1 when none is
SplitIndex(ws, from, tok) ==
    IF IsCandidate(tok) THEN FindMatch(ws, from, tok) ELSE -1

\* lines 58-66: one token of the parse
SearchStep ==
    /\ pc = "search"
    /\ tok_i < MaxTokens
    /\ \E tok \in Token :
         LET j == SplitIndex(words, word_idx, tok)
         IN  /\ token' = tok
             /\ IF j >= 0
                THEN /\ split_indices' = Append(split_indices, j)
                     /\ word_idx' = j + 1
                ELSE UNCHANGED <<split_indices, word_idx>>
    /\ tok_i' = tok_i + 1
    /\ UNCHANGED <<pc, argv, initial_prompt, stdout, exit_code, adapterVars,
                   detectVars, words, text, chunks>>

RECURSIVE ChunkSegments(_)
ChunkSegments(cs) ==
    IF cs = <<>> THEN <<>> ELSE <<ChunkSegment(Head(cs))>> \o ChunkSegments(Tail(cs))

ChunkWords(cs) == [n \in 1..Len(cs) |-> cs[n].words]

\* lines 68-97, 211-217: the parse has no more tokens; the chunks are cut and
\* each becomes a segment
SplitReturn ==
    /\ pc = "search"
    /\ split_indices' = SplitPoints(words, split_indices)
    /\ chunks' = MakeChunks(words, text, split_indices)
    /\ segments' = segments \o ChunkSegments(chunks')
    /\ seg_words' = seg_words \o ChunkWords(chunks')
    /\ sent_i' = sent_i + 1
    /\ tok_i' = 0
    /\ token' = NoToken
    /\ word_idx' = 0
    /\ pc' = "loop"
    /\ UNCHANGED <<argv, initial_prompt, stdout, exit_code, adapterVars,
                   all_words, sentence_segments, words, text>>

\* line 227
LoopEnd ==
    /\ pc = "loop"
    /\ ~(sent_i < Len(sentence_segments))
    /\ pc' = "return"
    /\ UNCHANGED <<argv, initial_prompt, stdout, exit_code, adapterVars,
                   detectVars, splitVars>>

\* lines 240-247: the result object is printed; the process ends with status 0
MainSuccess ==
    /\ pc = "return"
    /\ stdout' = Append(stdout, [success |-> TRUE, segments |-> segments,
                                 count |-> Len(segments),
                                 prompt_used |-> initial_prompt])
    /\ exit_code' = 0
    /\ pc' = "exit"
    /\ UNCHANGED <<argv, initial_prompt, adapterVars, detectVars, splitVars>>

Next ==
    \/ MainUsage
    \/ MainArgs
    \/ TranscribeSegment
    \/ TranscribeWord
    \/ TranscribeRaise
    \/ TranscribeReturn
    \/ TranscribeReturnMalformed
    \/ FlattenRaise
    \/ Fallback
    \/ Group
    \/ LoopDirect
    \/ LoopSplit
    \/ SearchStep
    \/ SplitReturn
    \/ LoopEnd
    \/ MainSuccess

Spec == Init /\ [][Next]_vars

(***************************************************************************)
(* Properties.                                                             *)
(***************************************************************************)
Last(s) == s[Len(s)]

RECURSIVE Concat(_)
Concat(ss) == IF ss = <<>> THEN <<>> ELSE Head(ss) \o Concat(Tail(ss))

WholeMs(ws) == \A n \in 1..Len(ws) : ws[n].start % 10 = 0 /\ ws[n].end % 10 = 0

Chronological(ws) ==
    /\ \A n \in 1..Len(ws) : ws[n].start <= ws[n].end
    /\ \A n \in 1..(Len(ws) - 1) : ws[n].end <= ws[n + 1].start

\* the words were timed: the word-level path of detect_speech_segments
WordPath == all_words # <<>>

\* the run took the fallback of lines 150-163 and returned from it
FallbackPath ==
    /\ pc \in {"return", "exit"}
    /\ "segments" \in DOMAIN result
    /\ all_words = <<>>
    /\ exit_code # 1

\* C1: for a non-empty list of words timed in whole milliseconds, in
\* chronological order, every emitted segment has start <= end and a
\* reported duration equal to its reported end minus its reported start.
C1_StartEndDuration ==
    (WordPath /\ WholeMs(all_words) /\ Chronological(all_words)) =>
        \A n \in 1..Len(segments) :
            /\ segments[n].start <= segments[n].end
            /\ segments[n].duration = segments[n].end - segments[n].start

C1_Witness ==
    /\ pc = "exit"
    /\ exit_code = 0
    /\ WordPath
    /\ chunks # <<>>
    /\ Len(segments) > Len(chunks)

\* C2: on every failure path of main the object written to standard output
\* carries success = false together with an error message, and the exit
\* status is 1.
C2_FailureObject ==
    (pc = "exit" /\ exit_code # 0) =>
        /\ exit_code = 1
        /\ Len(stdout) = 1
        /\ "success" \in DOMAIN stdout[1]
        /\ stdout[1].success = FALSE
        /\ "error" \in DOMAIN stdout[1]

\* C3: a terminated invocation has written exactly one object, its exit
\* status is 0 exactly when that object has success = true, and then count
\* is the length of the segments list; nothing is written before the end.
C3_OneObject ==
    /\ Len(stdout) <= 1
    /\ pc # "exit" => (stdout = <<>> /\ exit_code = -1)
    /\ pc = "exit" =>
        /\ Len(stdout) = 1
        /\ exit_code \in {0, 1}
        /\ exit_code = 0 <=>
              ("success" \in DOMAIN stdout[1] /\ stdout[1].success = TRUE)
        /\ exit_code = 0 =>
              /\ stdout[1].count = Len(stdout[1].segments)
              /\ stdout[1].segments = segments

C3_Witness ==
    /\ pc = "exit"
    /\ exit_code = 0
    /\ stdout[1].success = TRUE
    /\ stdout[1].count = 2
    /\ stdout[1].prompt_used = "Dictation."

Terminator(w) ==
    \E k \in 1..Len(w.word) :
        /\ w.word[k] \in {".", "!", "?"}
        /\ \A m \in (k + 1)..Len(w.word) : w.word[m] = " "

\* C6: the groups cut the flattened word list exactly at its terminator
\* words: every group but possibly the last ends with one, no group has one
\* before its last word, and there is a trailing group without terminator
\* exactly when the last word of the list is not one.
C6_SentenceGroups ==
    (WordPath /\ pc # "flatten") =>
        LET G == sentence_segments
        IN  /\ Concat([n \in 1..Len(G) |-> G[n].words]) = all_words
            /\ \A n \in 1..Len(G) :
                  /\ G[n].words # <<>>
                  /\ \A k \in 1..(Len(G[n].words) - 1) : ~Terminator(G[n].words[k])
                  /\ n < Len(G) => Terminator(Last(G[n].words))
            /\ Len(G) = Cardinality({k \in 1..Len(all_words) : Terminator(all_words[k])})
                        + (IF Terminator(Last(all_words)) THEN 0 ELSE 1)

C6_Witness ==
    /\ pc = "exit"
    /\ Len(all_words) = 2
    /\ ~Terminator(all_words[1])
    /\ Terminator(all_words[2])
    /\ Len(sentence_segments) = 1

\* the splitter returns after a search that recorded no split point
ReturnsUnmatched == pc = "search" /\ pc' = "loop" /\ split_indices = <<>>

TwoHalves ==
    LET n == Len(words)
        mid == n \div 2
    IN  /\ Len(chunks') = 2
        /\ chunks'[1].words = SubSeq(words, 1, mid)
        /\ chunks'[2].words = SubSeq(words, mid + 1, n)

\* C7 as claimed: a sentence of n >= 1 words over the ceiling for which no
\* split point matched is returned as exactly 2 chunks, words[0 .. mid-1] and
\* words[mid .. n-1], mid = floor(n / 2).
C7_Claimed == [][(ReturnsUnmatched /\ Len(words) >= 1) => TwoHalves]_vars

\* C7 as amended: that holds for n >= 2; a sentence of one word is returned
\* as a single chunk holding that word.
C7_MidpointSplit ==
    [][ReturnsUnmatched =>
          /\ Len(words) >= 2 => TwoHalves
          /\ Len(words) = 1 => (Len(chunks') = 1 /\ chunks'[1].words = words)]_vars

C7_Witness ==
    /\ pc = "loop"
    /\ Len(words) = 2
    /\ \A n \in 1..Len(words) : Lower(Strip(words[n].word)) \notin SplitTexts
    /\ Len(chunks) = 2

\* C8: on the word-level path the words of every emitted segment span at
\* most 7 seconds, from the first word's start to the last word's end.
C8_BoundedChunks ==
    WordPath =>
        \A n \in 1..Len(seg_words) :
            Last(seg_words[n]).end - seg_words[n][1].start <= MAX_SEGMENT_DURATION

\* C9: the recorded split indices are strictly increasing valid indices of
\* the word list, below the cursor; each step of the search leaves the cursor
\* where it was or moves it forward, records at most one index, and an index
\* it records is the first position at or after the cursor whose word equals
\* the token, ignoring case and surrounding whitespace.
C9_Indices ==
    /\ \A a \in 1..Len(split_indices) :
          /\ pc = "search" => (0 <= split_indices[a] /\ split_indices[a] < word_idx)
          /\ split_indices[a] < Len(words)
    /\ \A a, b \in 1..Len(split_indices) : a < b => split_indices[a] < split_indices[b]
    /\ word_idx <= Len(words)

C9_Step ==
    (pc = "search" /\ pc' = "search") =>
        /\ word_idx' >= word_idx
        /\ \/ split_indices' = split_indices /\ word_idx' = word_idx
           \/ \E j \in word_idx..(Len(words) - 1) :
                /\ split_indices' = Append(split_indices, j)
                /\ word_idx' = j + 1
                /\ Lower(token'.text) \in SplitTexts
                /\ Lower(Strip(words[j + 1].word)) = Lower(token'.text)
                /\ \A h \in word_idx..(j - 1) :
                      Lower(Strip(words[h + 1].word)) # Lower(token'.text)

C9_MonotonicCursor == []C9_Indices /\ [][C9_Step]_vars

C9_Witness ==
    /\ pc = "search"
    /\ split_indices = <<0, 1>>
    /\ words[1].word = words[2].word

\* C10: on the word-level path the emitted segments cover non-empty,
\* contiguous runs of words in the original order, and together exactly the
\* flattened word list: while the loop runs, the words of the sentences done
\* so far; at the end, all of them.
C10_Partition ==
    (WordPath /\ pc \in {"loop", "return", "exit"}) =>
        /\ Len(seg_words) = Len(segments)
        /\ \A n \in 1..Len(seg_words) :
              /\ seg_words[n] # <<>>
              /\ segments[n].start = seg_words[n][1].start
        /\ Concat(seg_words) =
              Concat([n \in 1..sent_i |-> sentence_segments[n].words])
        /\ pc \in {"return", "exit"} => Concat(seg_words) = all_words

C10_Witness ==
    /\ pc = "exit"
    /\ exit_code = 0
    /\ Len(words) = 2
    /\ split_indices = <<0>>
    /\ Len(chunks) = 1
    /\ Len(segments) = 1

====
